---- MODULE Spec2Model ----
(***************************************************************************)
(* Model of src/server/index.ts: the socket.io event handlers of           *)
(* SocketServer.configureSocketEvents over the Prisma store (User and      *)
(* Message tables of the later migration, src/unnamed/part_000).           *)
(*                                                                         *)
(* Every handler is an async function.  It runs synchronously up to its    *)
(* first await, and then one step per await: a step performs the awaited   *)
(* store call and the code that follows it up to the next await (or the    *)
(* end of the handler).  Steps of different handlers interleave freely.    *)
(* A store call may fail; the failure is thrown at the await.              *)
(***************************************************************************)
EXTENDS Naturals, Integers, Sequences, FiniteSets, TLC

\* ------------------------------------------------------------------ bounds
MaxEvents == 2
MaxTasks == 2
MaxMsgs == 1
MaxTyping == 3
HistExtra == 2

\* ------------------------------------------------------- program constants
HistoryTake == 50
TypingExpiryMs == 2000
ROLE_MEMBER == 1
ROLE_MODERATOR == 2

\* time advances in ticks of 1000 ms
ExpiryTicks == TypingExpiryMs \div 1000

\* the literal written to now_room on logout and kick (a Cyrillic word in
\* the source, transliterated here)
Left == "vyshel"

Conns == {"A", "B"}
UserIds == {"alice", "bob"}
Rooms == {"Cars", "Games"}
Slots == 1..MaxTasks

VARIABLES
    users,         \* User table: user_id -> row, for the rows that exist
    messages,      \* Message table in created_at order
    rooms,         \* socket.rooms of each connection, without its own id
    open,          \* whether the connection is still connected
    allRooms,      \* SocketServer.allRooms
    typingTimers,  \* the typingTimers map of each connection's closure
    timers,        \* armed setTimeout timers (not fired, not cleared)
    tasks,         \* handlers suspended at an await, one per slot
    done,          \* the handler that returned in the last step
    crashed,       \* a rejection escaped every try/catch
    nev            \* inbound events the run may still take

vars == <<users, messages, rooms, open, allRooms, typingTimers, timers,
          tasks, done, crashed, nev>>

\* ------------------------------------------------------------- data shapes
NoRow == [status |-> "none", now_room |-> "", role |-> 0, is_muted |-> FALSE]

Row(status, room, role, muted) ==
    [status |-> status, now_room |-> room, role |-> role, is_muted |-> muted]

\* findUnique({where: {user_id}}): the row, or null
FindUnique(u) == IF u \in DOMAIN users THEN users[u] ELSE NoRow

\* an emitted event: its name, the connections it is addressed to, and the
\* payload fields the handlers send
Emit(ev, to, user, status, room, role, muted, list) ==
    [ev |-> ev, to |-> to, user |-> user, status |-> status, room |-> room,
     role |-> role, muted |-> muted, list |-> list]

Plain(ev, to, room, user) == Emit(ev, to, user, "", room, 0, FALSE, <<>>)

Status(to, user, row) ==
    Emit("userStatusChanged", to, user, row.status, row.now_room, row.role,
         row.is_muted, <<>>)

\* socket.emit
ToSelf(c) == {c}
\* io.to(room)
ToRoom(rms, r) == {d \in Conns : r \in rms[d]}
ToRoomExcept_Inclusive(rms, c, r) == ToRoom(rms, r)

\* socket.to(room)
ToRoomExcept(rms, c, r) == ToRoom(rms, r) \ {c}
\* socket.broadcast
Broadcast(c) == {d \in Conns : open[d]} \ {c}

NoTask ==
    [kind |-> "idle", conn |-> "", pc |-> "", user |-> "", target |-> "",
     room |-> "", flag |-> FALSE, role |-> 0, snap |-> NoRow, em |-> <<>>,
     res |-> ""]

NewTask(kind, c, pc, user, target, room, flag) ==
    [NoTask EXCEPT !.kind = kind, !.conn = c, !.pc = pc, !.user = user,
                   !.target = target, !.room = room, !.flag = flag]

FreeSlots == {i \in Slots : tasks[i].kind = "idle"}
FreeSlot == CHOOSE i \in FreeSlots : \A j \in FreeSlots : i <= j

\* an inbound event can be taken: the process runs, the connection is
\* connected, and the model's budget of events and handlers is not used up
CanReceive(c) ==
    /\ ~crashed
    /\ open[c]
    /\ nev > 0
    /\ FreeSlots # {}

Running(i, kind, pc) ==
    /\ ~crashed
    /\ tasks[i].kind = kind
    /\ tasks[i].pc = pc

\* the handler in slot i goes on to its next await
Suspend(i, t) ==
    /\ tasks' = [tasks EXCEPT ![i] = t]
    /\ done' = NoTask

\* the handler in slot i returns
Return(i, t, res) ==
    /\ tasks' = [tasks EXCEPT ![i] = NoTask]
    /\ done' = [t EXCEPT !.pc = "done", !.res = res]

Spawn(t) ==
    /\ tasks' = [tasks EXCEPT ![FreeSlot] = t]
    /\ done' = NoTask
    /\ nev' = nev - 1

\* the state of a started server: no handler has run, every connection of
\* the model is connected and its closure holds an empty timer map
Fresh ==
    /\ rooms = [c \in Conns |-> {}]
    /\ open = [c \in Conns |-> TRUE]
    /\ allRooms = {"Technology", "Cars", "Games"}
    /\ typingTimers = [c \in Conns |-> << >>]
    /\ timers = {}
    /\ tasks = [i \in Slots |-> NoTask]
    /\ done = NoTask
    /\ crashed = FALSE

\* The store outlives the server process.  A started server finds it empty,
\* or holding the rows an earlier run left: alice, who entered an empty room
\* (moderator) and logged out, and bob, who entered after her (member), was
\* muted and logged out.
Persisted ==
    [x \in UserIds |->
        IF x = "alice" THEN Row("offline", Left, ROLE_MODERATOR, FALSE)
        ELSE Row("offline", Left, ROLE_MEMBER, TRUE)]

Init ==
    /\ Fresh
    /\ users \in {<< >>, Persisted}
    /\ messages = << >>
    /\ nev = MaxEvents

\* ------------------------------------------------------------------- login
LeaveAll_Kept(rs) == rs

\* rooms.forEach(room => { if (room !== socket.id) socket.leave(room) })
LeaveAll(rs) == {}

\* findMany({where: {now_room: roomName, NOT: {status: "offline"}}})
UsersInRoom(r) ==
    {u \in DOMAIN users : users[u].now_room = r /\ users[u].status # "offline"}

RoleFor_OffByOne(usersInRoom) ==
    IF Cardinality(usersInRoom) <= 1 THEN ROLE_MODERATOR ELSE ROLE_MEMBER

\* let role = 1; if (usersInRoom.length === 0) role = 2
RoleFor(usersInRoom) ==
    IF Cardinality(usersInRoom) = 0 THEN ROLE_MODERATOR ELSE ROLE_MEMBER

Upsert_Rechecked(u, r, role) ==
    LET now == IF UsersInRoom(r) \ {u} = {} THEN role ELSE ROLE_MEMBER
    IN IF u \in DOMAIN users
       THEN [users EXCEPT ![u] = [@ EXCEPT !.status = "online", !.now_room = r,
                                           !.role = now]]
       ELSE [x \in DOMAIN users \cup {u} |->
               IF x = u THEN Row("online", r, now, FALSE) ELSE users[x]]

Upsert_Unmuting(u, r, role) ==
    IF u \in DOMAIN users
    THEN [users EXCEPT ![u] = Row("online", r, role, FALSE)]
    ELSE [x \in DOMAIN users \cup {u} |->
            IF x = u THEN Row("online", r, role, FALSE) ELSE users[x]]

\* upsert({where: {user_id}, update: {status, now_room, role}, create: ...})
Upsert(u, r, role) ==
    IF u \in DOMAIN users
    THEN [users EXCEPT ![u] = [@ EXCEPT !.status = "online", !.now_room = r,
                                        !.role = role]]
    ELSE [x \in DOMAIN users \cup {u} |->
            IF x = u THEN Row("online", r, role, FALSE) ELSE users[x]]

\* message.findMany({where: {room}, orderBy: {created_at: 'asc'}, take: 50}):
\* the positions in the Message table of the rows returned, in order
InRoom(r) == {k \in 1..Len(messages) : messages[k].room = r}

RECURSIVE Ascending(_)
Ascending(S) ==
    IF S = {} THEN << >>
    ELSE LET m == CHOOSE k \in S : \A j \in S : k <= j
         IN <<m>> \o Ascending(S \ {m})

Take(s, n) == SubSeq(s, 1, IF Len(s) < n THEN Len(s) ELSE n)

RoomHistory(r) == Take(Ascending(InRoom(r)), HistoryTake)

\* findMany({where: {now_room: roomName, status: {in: ["online","typing"]}}})
RoomUsers(r) ==
    {u \in DOMAIN users :
        users[u].now_room = r /\ users[u].status \in {"online", "typing"}}

RECURSIVE SetToSeq(_)
SetToSeq(S) ==
    IF S = {} THEN << >>
    ELSE LET x == CHOOSE y \in S : TRUE IN <<x>> \o SetToSeq(S \ {x})

Login(c, u, r) ==
    /\ CanReceive(c)
    /\ rooms' = [rooms EXCEPT ![c] = LeaveAll(@) \cup {r}]
    /\ allRooms' = allRooms \cup {r}
    /\ Spawn(NewTask("login", c, "count", u, "", r, FALSE))
    /\ UNCHANGED <<users, messages, open, typingTimers, timers, crashed>>

LoginCount(i) ==
    /\ Running(i, "login", "count")
    /\ Suspend(i, [tasks[i] EXCEPT !.pc = "upsert",
                                   !.role = RoleFor(UsersInRoom(tasks[i].room))])
    /\ UNCHANGED <<users, messages, rooms, open, allRooms, typingTimers,
                   timers, crashed, nev>>

LoginUpsert(i) ==
    LET t == tasks[i]
        after == Upsert(t.user, t.room, t.role)
    IN /\ Running(i, "login", "upsert")
       /\ users' = after
       /\ Suspend(i, [t EXCEPT !.pc = "history", !.snap = after[t.user]])
       /\ UNCHANGED <<messages, rooms, open, allRooms, typingTimers, timers,
                      crashed, nev>>

LoginHistory(i) ==
    LET t == tasks[i]
        out == << Emit("roomHistory", ToSelf(t.conn), "", "", t.room, 0, FALSE,
                       RoomHistory(t.room)),
                  Emit("joinedRoom", ToSelf(t.conn), "", "", t.room,
                       t.snap.role, t.snap.is_muted, <<>>),
                  Plain("roomMessage", ToRoomExcept(rooms, t.conn, t.room),
                        t.room, t.user),
                  Status(Broadcast(t.conn), t.user, t.snap) >>
    IN /\ Running(i, "login", "history")
       /\ Suspend(i, [t EXCEPT !.pc = "roster", !.em = @ \o out])
       /\ UNCHANGED <<users, messages, rooms, open, allRooms, typingTimers,
                      timers, crashed, nev>>

LoginRoster(i) ==
    LET t == tasks[i]
        out == Emit("roomUsers", ToSelf(t.conn), "", "", t.room, 0, FALSE,
                    SetToSeq(RoomUsers(t.room)))
    IN /\ Running(i, "login", "roster")
       /\ Return(i, [t EXCEPT !.em = Append(@, out)], "ok")
       /\ UNCHANGED <<users, messages, rooms, open, allRooms, typingTimers,
                      timers, crashed, nev>>

\* ------------------------------------------------------------- userMessage
\* Array.from(socket.rooms).find(room => room !== socket.id)
CurrentRoom(c) == IF rooms[c] = {} THEN "" ELSE CHOOSE r \in rooms[c] : TRUE

\* message.create({data: {user_id, room, text}})
CreateMessage(u, r) == Append(messages, [user_id |-> u, room |-> r, text |-> "hi"])

\* messages the running userMessage handlers may still create
Creating == Cardinality({i \in Slots : tasks[i].kind = "userMessage"})

UserMessage(c, u) ==
    LET t == NewTask("userMessage", c, "find", u, "", CurrentRoom(c), FALSE)
    IN /\ CanReceive(c)
       /\ Len(messages) + Creating < MaxMsgs
       /\ IF CurrentRoom(c) = ""
          THEN /\ tasks' = tasks
               /\ done' = [t EXCEPT !.pc = "done", !.res = "noroom"]
               /\ nev' = nev - 1
          ELSE Spawn(t)
       /\ UNCHANGED <<users, messages, rooms, open, allRooms, typingTimers,
                      timers, crashed>>

IsMuted_Ignored(row) == FALSE

\* if (user?.is_muted) { socket.emit('errorMessage', ...); return; }
IsMuted(row) == row.is_muted

UserMessageFind(i) ==
    LET t == tasks[i]
        user == FindUnique(t.user)
    IN /\ Running(i, "userMessage", "find")
       /\ IF IsMuted(user)
          THEN Return(i, [t EXCEPT !.snap = user,
                                   !.em = <<Plain("errorMessage", ToSelf(t.conn), "", "")>>],
                      "muted")
          ELSE Suspend(i, [t EXCEPT !.pc = "create", !.snap = user])
       /\ UNCHANGED <<users, messages, rooms, open, allRooms, typingTimers,
                      timers, crashed, nev>>

\* the Message.user_id foreign key makes create throw for a sender with no row
UserMessageCreate(i) ==
    LET t == tasks[i]
        out == Emit("userMessage", ToRoom(rooms, t.room), t.user, "", t.room,
                    0, FALSE, <<Len(messages) + 1>>)
    IN /\ Running(i, "userMessage", "create")
       /\ IF t.user \in DOMAIN users
          THEN /\ messages' = CreateMessage(t.user, t.room)
               /\ Suspend(i, [t EXCEPT !.pc = "update", !.em = <<out>>])
          ELSE /\ messages' = messages
               /\ Return(i, t, "failed")
       /\ UNCHANGED <<users, rooms, open, allRooms, typingTimers, timers,
                      crashed, nev>>

SetStatus_UnlessLeft(u, status) ==
    IF users[u].now_room = Left THEN users ELSE [users EXCEPT ![u].status = status]

\* update({where: {user_id}, data: {status}}), for a row that exists
SetStatus(u, status) == [users EXCEPT ![u].status = status]

\* the snapshot userMessage broadcasts is the row read before the update
UserMessageUpdate(i) ==
    LET t == tasks[i]
    IN /\ Running(i, "userMessage", "update")
       /\ users' = SetStatus(t.user, "online")
       /\ Return(i, [t EXCEPT !.em = Append(@, Status(Broadcast(t.conn), t.user, t.snap))],
                 "ok")
       /\ UNCHANGED <<messages, rooms, open, allRooms, typingTimers, timers,
                      crashed, nev>>

\* -------------------------------------------------------------- moderation
MuteUser(c, m, x) ==
    /\ CanReceive(c)
    /\ Spawn(NewTask("muteUser", c, "auth", m, x, "", TRUE))
    /\ UNCHANGED <<users, messages, rooms, open, allRooms, typingTimers,
                   timers, crashed>>

UnmuteUser(c, m, x) ==
    /\ CanReceive(c)
    /\ Spawn(NewTask("unmuteUser", c, "auth", m, x, "", FALSE))
    /\ UNCHANGED <<users, messages, rooms, open, allRooms, typingTimers,
                   timers, crashed>>

KickUser(c, m, x) ==
    /\ CanReceive(c)
    /\ Spawn(NewTask("kickUser", c, "auth", m, x, "", FALSE))
    /\ UNCHANGED <<users, messages, rooms, open, allRooms, typingTimers,
                   timers, crashed>>

IsModerator_AnyRow(row) == row # NoRow

\* if (moderator?.role !== 2) { socket.emit('errorMessage', ...); return; }
IsModerator(row) == row.role = ROLE_MODERATOR

\* the first await of muteUser, unmuteUser and kickUser, the same in each
Authorize(i) ==
    LET t == tasks[i]
        moderator == FindUnique(t.user)
    IN /\ ~crashed
       /\ t.kind \in {"muteUser", "unmuteUser", "kickUser"}
       /\ t.pc = "auth"
       /\ IF IsModerator(moderator)
          THEN Suspend(i, [t EXCEPT !.pc = IF t.kind = "kickUser" THEN "target" ELSE "update",
                                    !.room = moderator.now_room])
          ELSE Return(i, [t EXCEPT !.em = <<Plain("errorMessage", ToSelf(t.conn), "", "")>>],
                      "denied")
       /\ UNCHANGED <<users, messages, rooms, open, allRooms, typingTimers,
                      timers, crashed, nev>>

\* update({where: {user_id: targetUserId}, data: {is_muted}})
SetMuted(u, muted) == [users EXCEPT ![u].is_muted = muted]

\* muteUser (flag TRUE) and unmuteUser (flag FALSE) after the moderator check;
\* update throws when the target has no row
MuteUpdate(i) ==
    LET t == tasks[i]
        to == ToRoom(rooms, t.room)
        out == << Plain("roomMessage", to, t.room, t.target),
                  Emit("userMuted", to, t.target, "", "", 0, t.flag, <<>>) >>
    IN /\ ~crashed
       /\ t.kind \in {"muteUser", "unmuteUser"}
       /\ t.pc = "update"
       /\ IF t.target \in DOMAIN users
          THEN /\ users' = SetMuted(t.target, t.flag)
               /\ Return(i, [t EXCEPT !.em = out], "ok")
          ELSE /\ users' = users
               /\ Return(i, t, "failed")
       /\ UNCHANGED <<messages, rooms, open, allRooms, typingTimers, timers,
                      crashed, nev>>

\* const targetUser = await findUnique(...); if (!targetUser) return;
KickTarget(i) ==
    LET t == tasks[i]
        targetUser == FindUnique(t.target)
    IN /\ Running(i, "kickUser", "target")
       /\ IF targetUser = NoRow
          THEN Return(i, t, "notarget")
          ELSE Suspend(i, [t EXCEPT !.pc = "update", !.snap = targetUser])
       /\ UNCHANGED <<users, messages, rooms, open, allRooms, typingTimers,
                      timers, crashed, nev>>

SetLeft_StatusOnly(u) == [users EXCEPT ![u].status = "offline"]

\* update({where: {user_id}, data: {status: "offline", now_room: Left}})
SetLeft(u) == [users EXCEPT ![u].status = "offline", ![u].now_room = Left]

KickUpdate(i) ==
    LET t == tasks[i]
        to == ToRoom(rooms, t.room)
        out == << Plain("roomMessage", to, t.room, t.target),
                  Plain("userKicked", to, "", t.target),
                  Emit("userStatusChanged", Broadcast(t.conn), t.target,
                       "offline", Left, t.snap.role, t.snap.is_muted, <<>>) >>
    IN /\ Running(i, "kickUser", "update")
       /\ users' = SetLeft(t.target)
       /\ Return(i, [t EXCEPT !.em = out], "ok")
       /\ UNCHANGED <<messages, rooms, open, allRooms, typingTimers, timers,
                      crashed, nev>>

\* ------------------------------------------------------------------ typing
\* an armed timer: the connection whose closure the callback captured, the
\* userId it captured, the Timeout object, and the ticks left until it fires
Timer(c, u, id, ticks) == [conn |-> c, user |-> u, id |-> id, left |-> ticks]

MapIds == UNION {{typingTimers[c][u] : u \in DOMAIN typingTimers[c]} : c \in Conns}
UsedIds == {tm.id : tm \in timers} \cup MapIds
NewId == CHOOSE k \in 1..(Cardinality(UsedIds) + 1) : k \notin UsedIds

\* typingTimers.delete(userId)
MapDelete(map, u) == [x \in DOMAIN map \ {u} |-> map[x]]
\* typingTimers.set(userId, timer)
MapSet(map, u, id) == [x \in DOMAIN map \cup {u} |-> IF x = u THEN id ELSE map[x]]

ClearTimeout_Shared(map, u) == {tm \in timers : tm.user # u}

\* if (typingTimers.has(userId)) { clearTimeout(typingTimers.get(userId)); ... }
ClearTimeout(map, u) ==
    IF u \in DOMAIN map THEN {tm \in timers : tm.id # map[u]} ELSE timers

Typing(c, u, isTyping) ==
    LET map == MapDelete(typingTimers[c], u)
    IN /\ CanReceive(c)
       /\ IF isTyping
          THEN /\ timers' = ClearTimeout(typingTimers[c], u)
                                \cup {Timer(c, u, NewId, ExpiryTicks)}
               /\ typingTimers' = [typingTimers EXCEPT ![c] = MapSet(map, u, NewId)]
          ELSE /\ timers' = ClearTimeout(typingTimers[c], u)
               /\ typingTimers' = [typingTimers EXCEPT ![c] = map]
       /\ Spawn(NewTask("typing", c, "update", u, "", "", isTyping))
       /\ UNCHANGED <<users, messages, rooms, open, allRooms, crashed>>

\* update throws when the participant has no row; the handler catches it
TypingUpdate(i) ==
    LET t == tasks[i]
        after == SetStatus(t.user, IF t.flag THEN "typing" ELSE "online")
    IN /\ Running(i, "typing", "update")
       /\ IF t.user \in DOMAIN users
          THEN /\ users' = after
               /\ Return(i, [t EXCEPT !.em = <<Status(Broadcast(t.conn), t.user,
                                                      after[t.user])>>], "ok")
          ELSE /\ users' = users
               /\ Return(i, t, "failed")
       /\ UNCHANGED <<messages, rooms, open, allRooms, typingTimers, timers,
                      crashed, nev>>

\* time passes; a timer that is due fires before more time passes
Tick ==
    /\ ~crashed
    /\ timers # {}
    /\ \A tm \in timers : tm.left > 0
    /\ timers' = {[tm EXCEPT !.left = @ - 1] : tm \in timers}
    /\ done' = NoTask
    /\ UNCHANGED <<users, messages, rooms, open, allRooms, typingTimers, tasks,
                   crashed, nev>>

\* the setTimeout callback starts and suspends at its update
TimerFire(tm) ==
    /\ ~crashed
    /\ tm \in timers
    /\ tm.left = 0
    /\ FreeSlots # {}
    /\ timers' = timers \ {tm}
    /\ tasks' = [tasks EXCEPT ![FreeSlot] =
                    NewTask("expiry", tm.conn, "update", tm.user, "", "", FALSE)]
    /\ done' = NoTask
    /\ UNCHANGED <<users, messages, rooms, open, allRooms, typingTimers,
                   crashed, nev>>

\* a rejection of the callback's promise is handled by nobody
Uncaught(i) ==
    /\ crashed' = TRUE
    /\ tasks' = [tasks EXCEPT ![i] = NoTask]
    /\ done' = [tasks[i] EXCEPT !.pc = "done", !.res = "uncaught"]

ExpiryUpdate(i) ==
    LET t == tasks[i]
        after == SetStatus(t.user, "online")
    IN /\ Running(i, "expiry", "update")
       /\ IF t.user \in DOMAIN users
          THEN /\ users' = after
               /\ typingTimers' = [typingTimers EXCEPT ![t.conn] = MapDelete(@, t.user)]
               /\ Return(i, [t EXCEPT !.em = <<Status(Broadcast(t.conn), t.user,
                                                      after[t.user])>>], "ok")
               /\ crashed' = crashed
          ELSE /\ users' = users
               /\ typingTimers' = typingTimers
               /\ Uncaught(i)
       /\ UNCHANGED <<messages, rooms, open, allRooms, timers, nev>>

\* ------------------------------------------------------------------ logout
Logout(c, u) ==
    /\ CanReceive(c)
    /\ Spawn(NewTask("logout", c, "update", u, "", "", FALSE))
    /\ UNCHANGED <<users, messages, rooms, open, allRooms, typingTimers,
                   timers, crashed>>

LeftNotices_None(c, u) == << >>

\* rooms.forEach(room => { socket.leave(room); socket.to(room).emit(...) })
LeftNotices(c, u) ==
    [k \in 1..Len(SetToSeq(rooms[c])) |->
        Plain("roomMessage", ToRoomExcept(rooms, c, SetToSeq(rooms[c])[k]),
              SetToSeq(rooms[c])[k], u)]

LogoutUpdate(i) ==
    LET t == tasks[i]
        after == SetLeft(t.user)
    IN /\ Running(i, "logout", "update")
       /\ IF t.user \in DOMAIN users
          THEN /\ users' = after
               /\ rooms' = [rooms EXCEPT ![t.conn] = LeaveAll(@)]
               /\ Return(i, [t EXCEPT !.em = LeftNotices(t.conn, t.user) \o
                                 <<Status(Broadcast(t.conn), t.user, after[t.user])>>],
                         "ok")
          ELSE /\ users' = users
               /\ rooms' = rooms
               /\ Return(i, t, "failed")
       /\ UNCHANGED <<messages, open, allRooms, typingTimers, timers, crashed, nev>>

\* -------------------------------------------------------------- sendToRoom
SendToRoom(c, r) ==
    /\ CanReceive(c)
    /\ done' = [NewTask("sendToRoom", c, "done", "", "", r, FALSE) EXCEPT
                   !.em = <<Plain("roomMessage", ToRoomExcept(rooms, c, r), r, "")>>,
                   !.res = "ok"]
    /\ nev' = nev - 1
    /\ UNCHANGED <<users, messages, rooms, open, allRooms, typingTimers,
                   timers, tasks, crashed>>

\* -------------------------------------------------------------- disconnect
\* the transport empties socket.rooms before it calls the handler
Disconnect(c) ==
    /\ CanReceive(c)
    /\ open' = [open EXCEPT ![c] = FALSE]
    /\ rooms' = [rooms EXCEPT ![c] = {}]
    /\ Spawn(NewTask("disconnect", c, "find", "", "", "", FALSE))
    /\ UNCHANGED <<users, messages, allRooms, typingTimers, timers, crashed>>

NotLeft_AnyRow == DOMAIN users

\* findFirst({where: {now_room: {not: Left}}}): any matching row
NotLeft == {u \in DOMAIN users : users[u].now_room # Left}

DisconnectFind(i) ==
    LET t == tasks[i]
    IN /\ Running(i, "disconnect", "find")
       /\ IF NotLeft = {}
          THEN Return(i, t, "none")
          ELSE \E u \in NotLeft :
                  Suspend(i, [t EXCEPT !.pc = "update", !.user = u, !.snap = users[u]])
       /\ UNCHANGED <<users, messages, rooms, open, allRooms, typingTimers,
                      timers, crashed, nev>>

DisconnectUpdate(i) ==
    LET t == tasks[i]
    IN /\ Running(i, "disconnect", "update")
       /\ users' = SetStatus(t.user, "offline")
       /\ Return(i, [t EXCEPT !.em = <<Emit("userStatusChanged", Broadcast(t.conn),
                                            t.user, "offline", t.snap.now_room, 0,
                                            FALSE, <<>>)>>], "ok")
       /\ UNCHANGED <<messages, rooms, open, allRooms, typingTimers, timers,
                      crashed, nev>>

\* ---------------------------------------------------------- store failures
\* the store call the handler in slot i awaits throws: the handler's catch
\* logs it and the handler ends; the timer callback has no catch
StoreFail(i) ==
    /\ ~crashed
    /\ tasks[i].kind # "idle"
    /\ IF tasks[i].kind = "expiry"
       THEN Uncaught(i)
       ELSE /\ Return(i, tasks[i], "failed")
            /\ crashed' = crashed
    /\ UNCHANGED <<users, messages, rooms, open, allRooms, typingTimers,
                   timers, nev>>

Next ==
    \/ \E c \in Conns, u \in UserIds, r \in Rooms : Login(c, u, r)
    \/ \E i \in Slots : LoginCount(i)
    \/ \E i \in Slots : LoginUpsert(i)
    \/ \E i \in Slots : LoginHistory(i)
    \/ \E i \in Slots : LoginRoster(i)
    \/ \E c \in Conns, u \in UserIds : UserMessage(c, u)
    \/ \E i \in Slots : UserMessageFind(i)
    \/ \E i \in Slots : UserMessageCreate(i)
    \/ \E i \in Slots : UserMessageUpdate(i)
    \/ \E c \in Conns, m \in UserIds, x \in UserIds : MuteUser(c, m, x)
    \/ \E c \in Conns, m \in UserIds, x \in UserIds : UnmuteUser(c, m, x)
    \/ \E c \in Conns, m \in UserIds, x \in UserIds : KickUser(c, m, x)
    \/ \E i \in Slots : Authorize(i)
    \/ \E i \in Slots : MuteUpdate(i)
    \/ \E i \in Slots : KickTarget(i)
    \/ \E i \in Slots : KickUpdate(i)
    \/ \E c \in Conns, u \in UserIds, b \in BOOLEAN : Typing(c, u, b)
    \/ \E i \in Slots : TypingUpdate(i)
    \/ Tick
    \/ \E tm \in timers : TimerFire(tm)
    \/ \E i \in Slots : ExpiryUpdate(i)
    \/ \E c \in Conns, u \in UserIds : Logout(c, u)
    \/ \E i \in Slots : LogoutUpdate(i)
    \/ \E c \in Conns, r \in Rooms : SendToRoom(c, r)
    \/ \E c \in Conns : Disconnect(c)
    \/ \E i \in Slots : DisconnectFind(i)
    \/ \E i \in Slots : DisconnectUpdate(i)
    \/ \E i \in Slots : StoreFail(i)

Spec == Init /\ [][Next]_vars

\* ---------------------------------------------- a participant who types
\* alice has logged in to Cars on connection A; from then on the only
\* inbound events are typing{userId: alice, isTyping: true} on A
TypingInit ==
    /\ users = [x \in {"alice"} |-> Row("online", "Cars", ROLE_MODERATOR, FALSE)]
    /\ messages = << >>
    /\ rooms = [c \in Conns |-> IF c = "A" THEN {"Cars"} ELSE {}]
    /\ open = [c \in Conns |-> TRUE]
    /\ allRooms = {"Technology", "Cars", "Games"}
    /\ typingTimers = [c \in Conns |-> << >>]
    /\ timers = {}
    /\ tasks = [i \in Slots |-> NoTask]
    /\ done = NoTask
    /\ crashed = FALSE
    /\ nev = MaxTyping

TypingNext ==
    \/ Typing("A", "alice", TRUE)
    \/ \E i \in Slots : TypingUpdate(i)
    \/ Tick
    \/ \E tm \in timers : TimerFire(tm)
    \/ \E i \in Slots : ExpiryUpdate(i)

SpecTyping == TypingInit /\ [][TypingNext]_vars

\* ------------------------------------------------ a room with a long history
\* the store holds the rows of Persisted and the messages of an earlier run:
\* one in Games, then n in Cars, n around the size of the history window
Stored(n) ==
    [k \in 1..(n + 1) |->
        [user_id |-> "alice", room |-> IF k = 1 THEN "Games" ELSE "Cars",
         text |-> "hi"]]

HistoryInit ==
    /\ Fresh
    /\ users = Persisted
    /\ messages \in {Stored(n) : n \in (HistoryTake - 1)..(HistoryTake + HistExtra)}
    /\ nev = MaxEvents

HistoryNext ==
    \/ \E c \in Conns, u \in UserIds, r \in Rooms : Login(c, u, r)
    \/ \E i \in Slots : LoginCount(i)
    \/ \E i \in Slots : LoginUpsert(i)
    \/ \E i \in Slots : LoginHistory(i)
    \/ \E i \in Slots : LoginRoster(i)

SpecHistory == HistoryInit /\ [][HistoryNext]_vars

\* ------------------------------------------- two participants, one room
\* The store is empty.  A first participant logs in to a room on one
\* connection, a second participant logs in to the same room on the other
\* connection, and the first sends a message; each event arrives when the
\* handler of the one before has returned, and no store call fails.
ScenarioEvents == 3

Idle == \A i \in Slots : tasks[i] = NoTask

ScenarioInit ==
    /\ Fresh
    /\ users = << >>
    /\ messages = << >>
    /\ nev = ScenarioEvents

ScenarioNext ==
    \/ \E c \in Conns, u \in UserIds, r \in Rooms :
          /\ Idle /\ nev = ScenarioEvents
          /\ Login(c, u, r)
    \/ \E c \in Conns, u \in UserIds :
          /\ Idle /\ nev = ScenarioEvents - 1
          /\ c # done.conn /\ u # done.user
          /\ Login(c, u, done.room)
    \/ \E c \in Conns, u \in UserIds :
          /\ Idle /\ nev = ScenarioEvents - 2
          /\ c # done.conn /\ u # done.user
          /\ UserMessage(c, u)
    \/ \E i \in Slots : LoginCount(i)
    \/ \E i \in Slots : LoginUpsert(i)
    \/ \E i \in Slots : LoginHistory(i)
    \/ \E i \in Slots : LoginRoster(i)
    \/ \E i \in Slots : UserMessageFind(i)
    \/ \E i \in Slots : UserMessageCreate(i)
    \/ \E i \in Slots : UserMessageUpdate(i)

SpecScenario == ScenarioInit /\ [][ScenarioNext]_vars

\* ------------------------------------- a participant who types and sends
\* alice has logged in to Cars on connection A; the inbound events are her
\* typing events and her messages on A
PresenceNext ==
    \/ \E b \in BOOLEAN : Typing("A", "alice", b)
    \/ UserMessage("A", "alice")
    \/ \E i \in Slots : TypingUpdate(i)
    \/ \E i \in Slots : UserMessageFind(i)
    \/ \E i \in Slots : UserMessageCreate(i)
    \/ \E i \in Slots : UserMessageUpdate(i)
    \/ Tick
    \/ \E tm \in timers : TimerFire(tm)
    \/ \E i \in Slots : ExpiryUpdate(i)

SpecPresence == TypingInit /\ [][PresenceNext]_vars

\* --------------------------------------------- a room with two occupants
\* alice has logged in to Cars on connection A (moderator) and bob after her
\* on connection B (member); the inbound events are kickUser and userMessage
KickInit ==
    /\ users = [x \in UserIds |->
                  Row("online", "Cars",
                      IF x = "alice" THEN ROLE_MODERATOR ELSE ROLE_MEMBER, FALSE)]
    /\ messages = << >>
    /\ rooms = [c \in Conns |-> {"Cars"}]
    /\ open = [c \in Conns |-> TRUE]
    /\ allRooms = {"Technology", "Cars", "Games"}
    /\ typingTimers = [c \in Conns |-> << >>]
    /\ timers = {}
    /\ tasks = [i \in Slots |-> NoTask]
    /\ done = NoTask
    /\ crashed = FALSE
    /\ nev = MaxEvents

KickNext ==
    \/ \E c \in Conns, m \in UserIds, x \in UserIds : KickUser(c, m, x)
    \/ \E c \in Conns, u \in UserIds : UserMessage(c, u)
    \/ \E i \in Slots : Authorize(i)
    \/ \E i \in Slots : KickTarget(i)
    \/ \E i \in Slots : KickUpdate(i)
    \/ \E i \in Slots : UserMessageFind(i)
    \/ \E i \in Slots : UserMessageCreate(i)
    \/ \E i \in Slots : UserMessageUpdate(i)
    \/ \E i \in Slots : StoreFail(i)

SpecKick == KickInit /\ [][KickNext]_vars

\* ------------------------------------------------ occupants who log out
\* both connections are in Cars: alice logged in on A and bob on B, or bob's
\* login failed at its upsert after the join and he has no row; the inbound
\* events are logout and login
LogoutInit ==
    /\ users \in {[x \in S |->
                     Row("online", "Cars",
                         IF x = "alice" THEN ROLE_MODERATOR ELSE ROLE_MEMBER, FALSE)] :
                  S \in {UserIds, {"alice"}}}
    /\ messages = << >>
    /\ rooms = [c \in Conns |-> {"Cars"}]
    /\ open = [c \in Conns |-> TRUE]
    /\ allRooms = {"Technology", "Cars", "Games"}
    /\ typingTimers = [c \in Conns |-> << >>]
    /\ timers = {}
    /\ tasks = [i \in Slots |-> NoTask]
    /\ done = NoTask
    /\ crashed = FALSE
    /\ nev = MaxEvents

LogoutNext ==
    \/ \E c \in Conns, u \in UserIds : Logout(c, u)
    \/ \E i \in Slots : LogoutUpdate(i)
    \/ \E c \in Conns, u \in UserIds, r \in Rooms : Login(c, u, r)
    \/ \E i \in Slots : LoginCount(i)
    \/ \E i \in Slots : LoginUpsert(i)
    \/ \E i \in Slots : LoginHistory(i)
    \/ \E i \in Slots : LoginRoster(i)
    \/ \E i \in Slots : StoreFail(i)

SpecLogout == LogoutInit /\ [][LogoutNext]_vars

\* ---------------------------------------------- occupants who disconnect
\* alice has logged in to Cars on connection A and bob on connection B; the
\* inbound events are the disconnect of a connection and the typing events
\* of the participant who logged in on it; no store call fails
LoggedIn == [c \in Conns |-> IF c = "A" THEN "alice" ELSE "bob"]

DisconnectNext ==
    \/ \E c \in Conns : Disconnect(c)
    \/ \E i \in Slots : DisconnectFind(i)
    \/ \E i \in Slots : DisconnectUpdate(i)
    \/ \E c \in Conns, b \in BOOLEAN : Typing(c, LoggedIn[c], b)
    \/ \E i \in Slots : TypingUpdate(i)
    \/ Tick
    \/ \E tm \in timers : TimerFire(tm)
    \/ \E i \in Slots : ExpiryUpdate(i)

SpecDisconnect == KickInit /\ [][DisconnectNext]_vars

\* ================================================================== claims
\* the handler in slot i, suspended at pc, takes this step
StepOf(i, kind, pc) ==
    /\ tasks[i].kind = kind
    /\ tasks[i].pc = pc
    /\ tasks'[i] # tasks[i]

\* the step is the awaited store call throwing
Failed == done'.res \in {"failed", "uncaught"}

ErrorTo(c) == Plain("errorMessage", {c}, "", "")

Events(t, ev) == {k \in 1..Len(t.em) : t.em[k].ev = ev}

\* C1 (as amended): when the lookup of the sender's row in a userMessage
\* handler returns is_muted = true, the handler returns at once: no Message
\* row is created, exactly one errorMessage is emitted, to the sending
\* connection alone, and nothing is emitted to a room.  A userMessage on a
\* connection that occupies no room returns on arrival: it creates nothing
\* and emits nothing, whether or not the sender is muted.
C1_MuteEnforcement ==
    [][/\ \A i \in Slots :
            StepOf(i, "userMessage", "find") /\ ~Failed
                /\ FindUnique(tasks[i].user).is_muted
            => /\ messages' = messages
               /\ users' = users
               /\ tasks'[i] = NoTask
               /\ done'.em = <<ErrorTo(tasks[i].conn)>>
       /\ done'.kind = "userMessage" /\ nev' # nev
            => /\ rooms[done'.conn] = {}
               /\ done'.em = << >>
               /\ messages' = messages
               /\ users' = users]_vars

\* C1 witness: a muted participant sent a message from a room and got the
\* error notice, and no Message row exists
C1_Witness ==
    /\ done.kind = "userMessage"
    /\ done.res = "muted"
    /\ rooms[done.conn] # {}
    /\ FindUnique(done.user).is_muted
    /\ done.em = <<ErrorTo(done.conn)>>
    /\ messages = << >>

\* C1 as stated: a userMessage handler that returns before its create while
\* the sender's stored is_muted is true has emitted exactly one errorMessage
\* to the sending connection, also on a connection that occupies no room
C1_Original ==
    /\ done.kind = "userMessage"
    /\ done.res \in {"noroom", "muted"}
    /\ FindUnique(done.user).is_muted
    => done.em = <<ErrorTo(done.conn)>>

ModerationKinds == {"muteUser", "unmuteUser", "kickUser"}

\* C2: a muteUser, unmuteUser or kickUser whose moderatorId names a row with
\* role member, or no row, changes no User row, and emits exactly one
\* errorMessage, to the acting connection, and nothing else.
C2_ModerationAuthorization ==
    [][\A i \in Slots :
          /\ tasks[i].kind \in ModerationKinds
          /\ StepOf(i, tasks[i].kind, "auth") /\ ~Failed
          /\ \/ tasks[i].user \notin DOMAIN users
             \/ FindUnique(tasks[i].user).role = ROLE_MEMBER
          => /\ users' = users
             /\ tasks'[i] = NoTask
             /\ done'.em = <<ErrorTo(tasks[i].conn)>>]_vars

\* C2 witness: a member asked for a moderation and was refused
C2_Witness ==
    /\ done.kind \in ModerationKinds
    /\ done.res = "denied"
    /\ FindUnique(done.user).role = ROLE_MEMBER
    /\ done.target \in DOMAIN users
    /\ done.em = <<ErrorTo(done.conn)>>

\* C3: a connection is in at most one room besides its own, in every state,
\* also while login handlers of that connection are suspended.
C3_SingleRoom == \A c \in Conns : Cardinality(rooms[c]) <= 1

\* C3 witness: two login handlers of one connection, into different rooms,
\* are both suspended, and the connection is in one room
C3_Witness ==
    \E c \in Conns : \E i, j \in Slots :
        /\ tasks[i].kind = "login" /\ tasks[i].conn = c
        /\ tasks[j].kind = "login" /\ tasks[j].conn = c
        /\ tasks[i].room # tasks[j].room
        /\ rooms[c] = {tasks[j].room}

\* C4: a login computes role moderator exactly when, at its occupancy query,
\* no row has now_room = the room with a status other than offline, and
\* member otherwise; its upsert stores that role with status online and the
\* room.
C4_RoleAssignment ==
    [][\A i \in Slots :
          /\ StepOf(i, "login", "count") /\ ~Failed
             => tasks'[i].role =
                  IF \E u \in DOMAIN users : /\ users[u].now_room = tasks[i].room
                                             /\ users[u].status # "offline"
                  THEN ROLE_MEMBER ELSE ROLE_MODERATOR
          /\ StepOf(i, "login", "upsert") /\ ~Failed
             => /\ tasks[i].user \in DOMAIN users'
                /\ users'[tasks[i].user].role = tasks[i].role
                /\ users'[tasks[i].user].now_room = tasks[i].room
                /\ users'[tasks[i].user].status = "online"]_vars

\* C4 witness: bob entered an empty room and is moderator; alice then
\* entered it while bob was online and her login returned as member
C4_Witness ==
    /\ done.kind = "login" /\ done.res = "ok" /\ done.user = "alice"
    /\ \A i \in Slots : tasks[i] = NoTask
    /\ DOMAIN users = UserIds
    /\ \A x \in UserIds : users[x].status = "online" /\ users[x].now_room = done.room
    /\ users["bob"].role = ROLE_MODERATOR
    /\ users["alice"].role = ROLE_MEMBER
    /\ done.snap.role = ROLE_MEMBER

\* C6: the update of a kickUser handler (its actor passed the moderator
\* check and its target row was found) sets the target's status to offline
\* and its now_room to Left and changes nothing else in the User table; the
\* handler then returns having broadcast one userStatusChanged, to every
\* connected connection but its own, with the target's id, offline and
\* Left.  A kickUser whose target has no row changes and emits nothing.
C6_KickEffect ==
    [][\A i \in Slots :
          /\ StepOf(i, "kickUser", "update") /\ ~Failed
             => /\ tasks[i].target \in DOMAIN users
                /\ users' = [users EXCEPT ![tasks[i].target] =
                                Row("offline", Left, @.role, @.is_muted)]
                /\ tasks'[i] = NoTask
                /\ \E k \in 1..Len(done'.em) :
                      /\ Events(done', "userStatusChanged") = {k}
                      /\ done'.em[k].to = {d \in Conns \ {tasks[i].conn} : open[d]}
                      /\ done'.em[k].user = tasks[i].target
                      /\ done'.em[k].status = "offline"
                      /\ done'.em[k].room = Left
          /\ StepOf(i, "kickUser", "target") /\ ~Failed
                /\ tasks[i].target \notin DOMAIN users
             => /\ users' = users
                /\ tasks'[i] = NoTask
                /\ done'.em = << >>]_vars

\* C6 witness: a kick returned whose target was online in a room when the
\* handler read it, and is now offline in Left
C6_Witness ==
    /\ done.kind = "kickUser" /\ done.res = "ok"
    /\ done.snap.status = "online"
    /\ done.snap.now_room \in Rooms
    /\ users[done.target] = Row("offline", Left, done.snap.role, done.snap.is_muted)
    /\ Cardinality(Events(done, "userStatusChanged")) = 1

\* C7: no row is online or typing with now_room = Left.
C7_StatusRoomConsistent ==
    \A u \in DOMAIN users :
        ~(users[u].status \in {"online", "typing"} /\ users[u].now_room = Left)

\* C8: no failure of a store call escapes every catch.
C8_FailuresContained == ~crashed

\* C10: the upsert of a login that computed role moderator stores moderator,
\* online and the room for its participant and leaves every other row as it
\* is, whatever occupants the room has by then.
C10_LoginRace ==
    [][\A i \in Slots :
          StepOf(i, "login", "upsert") /\ ~Failed
              /\ tasks[i].role = ROLE_MODERATOR
          => /\ tasks[i].user \in DOMAIN users'
             /\ users'[tasks[i].user].role = ROLE_MODERATOR
             /\ users'[tasks[i].user].status = "online"
             /\ users'[tasks[i].user].now_room = tasks[i].room
             /\ \A x \in DOMAIN users \ {tasks[i].user} : users'[x] = users[x]]_vars

\* C10 witness: two login handlers, of different participants into one room,
\* have both done their upsert with role moderator, and both rows are online
\* moderators of that room
C10_Witness ==
    \E i, j \in Slots :
        /\ tasks[i].kind = "login" /\ tasks[i].pc \in {"history", "roster"}
        /\ tasks[j].kind = "login" /\ tasks[j].pc \in {"history", "roster"}
        /\ tasks[i].user # tasks[j].user
        /\ tasks[i].room = tasks[j].room
        /\ \A t \in {tasks[i], tasks[j]} :
              users[t.user] = Row("online", t.room, ROLE_MODERATOR, users[t.user].is_muted)

Last(s, n) == SubSeq(s, IF Len(s) < n THEN 1 ELSE Len(s) - n + 1, Len(s))

\* C9: the roomHistory a login has emitted lists the min(50, n) most recent
\* messages of the room, oldest first.
C9_HistoryWindow ==
    \A i \in Slots :
        tasks[i].kind = "login" /\ tasks[i].pc = "roster"
        => /\ tasks[i].em[1].ev = "roomHistory"
           /\ tasks[i].em[1].list = Last(Ascending(InRoom(tasks[i].room)), HistoryTake)

MuteKinds == {"muteUser", "unmuteUser"}

\* C11: a row's is_muted changes only in the update step of a muteUser or
\* unmuteUser handler that targets the row, and a handler gets to that step
\* only from a moderator check that read role moderator for its actor; every
\* other step (login of an existing row, userMessage, typing, expiry,
\* kickUser, logout, disconnect, sendToRoom) leaves every is_muted as it is;
\* rows are never deleted, and a row that login creates has is_muted false.
C11_MuteOwnership ==
    [][/\ DOMAIN users \subseteq DOMAIN users'
       /\ \A u \in DOMAIN users :
             users'[u].is_muted # users[u].is_muted
             => \E i \in Slots :
                   /\ tasks[i].kind \in MuteKinds
                   /\ StepOf(i, tasks[i].kind, "update")
                   /\ tasks[i].target = u
                   /\ users'[u].is_muted = (tasks[i].kind = "muteUser")
       /\ \A i \in Slots :
             tasks'[i].kind \in MuteKinds /\ tasks'[i].pc = "update"
                /\ tasks'[i] # tasks[i]
             => /\ tasks[i].kind = tasks'[i].kind
                /\ tasks[i].pc = "auth"
                /\ tasks[i].user \in DOMAIN users
                /\ users[tasks[i].user].role = ROLE_MODERATOR
       /\ \A u \in DOMAIN users' \ DOMAIN users :
             /\ ~users'[u].is_muted
             /\ \E i \in Slots : StepOf(i, "login", "upsert") /\ tasks[i].user = u]_vars

\* C11 witness: bob, whose stored row is muted, has logged in and is still
\* muted, and a muteUser of a moderator has muted alice, who was not
C11_Witness ==
    /\ done.kind = "muteUser" /\ done.res = "ok"
    /\ done.target = "alice"
    /\ users["alice"].is_muted
    /\ "bob" \in DOMAIN users
    /\ users["bob"].status = "online"
    /\ users["bob"].is_muted

\* the one event named ev among those the returned handler emitted
TheEvent(t, ev) == t.em[CHOOSE k \in Events(t, ev) : TRUE]

\* C12: from an empty store, with the events handled one after another:
\* the first login (alice into Cars on A) stores and confirms moderator and
\* gets an empty roomHistory; the second login (bob into Cars on B) is stored
\* and confirmed as member, gets an empty roomHistory, and its join notice
\* goes to the first connection and not to its own; the first participant's
\* userMessage 'hi' then reaches both connections as one userMessage event
\* naming the sender, and exactly one Message row exists, with that room,
\* that sender and that text.
C12_Scenario ==
    /\ done.kind = "login" /\ nev < ScenarioEvents
       => /\ done.res = "ok"
          /\ Cardinality(Events(done, "roomHistory")) = 1
          /\ TheEvent(done, "roomHistory").to = {done.conn}
          /\ TheEvent(done, "roomHistory").list = << >>
          /\ Cardinality(Events(done, "joinedRoom")) = 1
          /\ TheEvent(done, "joinedRoom").to = {done.conn}
          /\ TheEvent(done, "joinedRoom").room = done.room
          /\ TheEvent(done, "joinedRoom").role = users[done.user].role
          /\ users[done.user] =
                Row("online", done.room,
                    IF nev = ScenarioEvents - 1 THEN ROLE_MODERATOR ELSE ROLE_MEMBER,
                    FALSE)
          /\ Cardinality(Events(done, "roomMessage")) = 1
          /\ TheEvent(done, "roomMessage").to =
                IF nev = ScenarioEvents - 1 THEN {} ELSE Conns \ {done.conn}
          /\ messages = << >>
    /\ done.kind = "userMessage"
       => /\ done.res = "ok"
          /\ users[done.user].role = ROLE_MODERATOR
          /\ Cardinality(Events(done, "userMessage")) = 1
          /\ TheEvent(done, "userMessage").to = Conns
          /\ TheEvent(done, "userMessage").user = done.user
          /\ messages[TheEvent(done, "userMessage").list[1]].text = "hi"
          /\ messages = <<[user_id |-> done.user, room |-> done.room, text |-> "hi"]>>
          /\ \A c \in Conns : rooms[c] = {done.room}

\* C12 witness: alice, moderator of Cars, logged in on A, bob, member, on B,
\* and alice's message has been handled
C12_Witness ==
    /\ done.kind = "userMessage" /\ done.res = "ok"
    /\ done.user = "alice" /\ done.conn = "A" /\ done.room = "Cars"
    /\ users["alice"].role = ROLE_MODERATOR
    /\ users["bob"] = Row("online", "Cars", ROLE_MEMBER, FALSE)
    /\ messages = <<[user_id |-> "alice", room |-> "Cars", text |-> "hi"]>>

\* the armed timers of connection c for participant u
Armed(c, u) == {tm \in timers : tm.conn = c /\ tm.user = u}

\* C13: for each connection and participant at most one timer is armed, and
\* an armed timer is the one the connection's map records for the
\* participant.
C13_TimerUniqueness ==
    \A c \in Conns : \A u \in UserIds :
        /\ Cardinality(Armed(c, u)) <= 1
        /\ \A tm \in Armed(c, u) :
              /\ u \in DOMAIN typingTimers[c]
              /\ typingTimers[c][u] = tm.id

\* a typing event arrives on connection c in this step
TypingOn(c) ==
    \E i \in Slots :
        tasks[i] = NoTask /\ tasks'[i].kind = "typing" /\ tasks'[i].conn = c

\* C14 (as amended): every connection has a timer map of its own.  A typing
\* event on a connection cancels at most the timer that connection's map
\* records for the participant; it leaves the timers armed by the other
\* connections armed and their maps as they are, so two connections can each
\* hold an armed timer for one participant.
C14_TimersPerConnection ==
    [][\A c \in Conns :
          TypingOn(c)
          => /\ \A tm \in timers : tm.conn # c => tm \in timers'
             /\ \A d \in Conns \ {c} : typingTimers'[d] = typingTimers[d]
             /\ \A tm \in timers \ timers' :
                   /\ tm.user \in DOMAIN typingTimers[c]
                   /\ typingTimers[c][tm.user] = tm.id]_vars

\* C14 witness: typing events for one participant on both connections have
\* each armed a timer, and both timers are armed
C14_Witness ==
    \E u \in UserIds :
        /\ \A c \in Conns :
              /\ u \in DOMAIN typingTimers[c]
              /\ \E tm \in Armed(c, u) : tm.id = typingTimers[c][u]
        /\ Cardinality({tm \in timers : tm.user = u}) = Cardinality(Conns)

\* C14 as stated: the timers are in one map shared by the connections, so at
\* most one timer per participant is armed in the whole process
C14_Original ==
    \A u \in UserIds : Cardinality({tm \in timers : tm.user = u}) <= 1

\* the participants other than p whose row is in room r and not offline
OthersIn(r, p) ==
    {u \in DOMAIN users \ {p} : users[u].now_room = r /\ users[u].status # "offline"}

\* C15: a login of P into R whose occupancy query finds no participant other
\* than P in R with a status other than offline computes, and then stores,
\* role moderator; so the only occupant of R who logs in to R again is
\* moderator again.
C15_ReloginModerator ==
    [][\A i \in Slots :
          StepOf(i, "login", "count") /\ ~Failed
             /\ OthersIn(tasks[i].room, tasks[i].user) = {}
          => tasks'[i].role = ROLE_MODERATOR]_vars

\* C16: the update step of a userMessage handler (its message is created)
\* leaves the sender's stored status online, and the handler returns having
\* broadcast one userStatusChanged that carries status online, whatever the
\* status was when the handler read the sender's row.
C16_MessageSnapshot ==
    [][\A i \in Slots :
          StepOf(i, "userMessage", "update") /\ ~Failed
          => /\ users'[tasks[i].user].status = "online"
             /\ tasks'[i] = NoTask
             /\ Cardinality(Events(done', "userStatusChanged")) = 1
             /\ TheEvent(done', "userStatusChanged").user = tasks[i].user
             /\ TheEvent(done', "userStatusChanged").status = "online"]_vars

\* C17: a disconnect handler changes at most one User row.  Its lookup
\* changes nothing; when no row has a now_room other than Left the handler
\* returns there with nothing emitted, and otherwise the row it goes on with
\* has a now_room other than Left.  Its update sets that row's status to
\* offline and changes nothing else in the row or in any other row, and one
\* userStatusChanged is broadcast.  No step of the handler, the arrival of
\* the event included, changes a Message row, a timer or a timer map.
C17_DisconnectFrame ==
    [][\A i \in Slots :
          /\ StepOf(i, "disconnect", "find") /\ ~Failed
             => /\ users' = users
                /\ IF \A u \in DOMAIN users : users[u].now_room = Left
                   THEN /\ tasks'[i] = NoTask
                        /\ done'.em = << >>
                   ELSE /\ tasks'[i].pc = "update"
                        /\ tasks'[i].user \in DOMAIN users
                        /\ users[tasks'[i].user].now_room # Left
                        /\ tasks'[i].snap = users[tasks'[i].user]
          /\ StepOf(i, "disconnect", "update") /\ ~Failed
             => /\ tasks[i].snap.now_room # Left
                /\ users' = [users EXCEPT ![tasks[i].user] =
                                Row("offline", @.now_room, @.role, @.is_muted)]
                /\ tasks'[i] = NoTask
                /\ Cardinality(Events(done', "userStatusChanged")) = 1
                /\ TheEvent(done', "userStatusChanged").user = tasks[i].user
                /\ TheEvent(done', "userStatusChanged").status = "offline"
                /\ Len(done'.em) = 1
          /\ \/ tasks[i].kind = "disconnect" /\ tasks'[i] # tasks[i]
             \/ tasks'[i].kind = "disconnect" /\ tasks[i] = NoTask
             => /\ messages' = messages
                /\ timers' = timers
                /\ typingTimers' = typingTimers
                /\ Failed \/ tasks[i] = NoTask => users' = users]_vars

\* C17 witness: a disconnect handler has set offline a row that is in a room
\* where another, still open, connection is, and has left the rest of the
\* row as it read it
C17_Witness ==
    /\ done.kind = "disconnect" /\ done.res = "ok"
    /\ done.snap.status = "online"
    /\ done.snap.now_room # Left
    /\ users[done.user] = [done.snap EXCEPT !.status = "offline"]
    /\ \E c \in Conns \ {done.conn} : open[c] /\ done.snap.now_room \in rooms[c]

\* C18: no step of a kickUser handler, the arrival of the event included,
\* changes the room membership of a connection.  A userMessage handler of a
\* sender who is not muted, the kicked target on its connection included,
\* creates one Message row with the room its connection is in and multicasts
\* the userMessage to the connections in that room, its own among them; its
\* update then sets the sender's stored status to online.
C18_KickKeepsMembership ==
    [][\A i \in Slots :
          /\ \/ tasks[i].kind = "kickUser" /\ tasks'[i] # tasks[i]
             \/ tasks'[i].kind = "kickUser" /\ tasks[i] = NoTask
             => rooms' = rooms
          /\ StepOf(i, "userMessage", "create") /\ ~Failed
             => /\ messages' = Append(messages, [user_id |-> tasks[i].user,
                                                 room |-> tasks[i].room,
                                                 text |-> "hi"])
                /\ Cardinality(Events(tasks'[i], "userMessage")) = 1
                /\ TheEvent(tasks'[i], "userMessage").to =
                      {d \in Conns : tasks[i].room \in rooms[d]}
          /\ StepOf(i, "userMessage", "update") /\ ~Failed
             => users'[tasks[i].user].status = "online"]_vars

\* C18 witness: bob was kicked (his row was offline with now_room Left when
\* his userMessage handler read it), his connection is still in the room,
\* his message is stored with that room and was multicast to both
\* connections, and his status is online again
C18_Witness ==
    /\ done.kind = "userMessage" /\ done.res = "ok"
    /\ done.user = "bob" /\ done.conn = "B"
    /\ done.snap = Row("offline", Left, ROLE_MEMBER, FALSE)
    /\ rooms["B"] = {"Cars"}
    /\ messages = <<[user_id |-> "bob", room |-> "Cars", text |-> "hi"]>>
    /\ TheEvent(done, "userMessage").to = Conns
    /\ users["bob"] = Row("online", Left, ROLE_MEMBER, FALSE)

\* C19: the update step of a logout handler for a participant who has a row
\* sets the row's status to offline and its now_room to Left and changes
\* nothing else in the User table; the connection leaves every room it is in
\* and no other connection's membership changes; for each room left one
\* roomMessage goes to the other connections in it, and one
\* userStatusChanged goes to every other connected connection.  When the
\* participant has no row the update throws: no row and no membership
\* changes and nothing is emitted.
C19_LogoutEffect ==
    [][\A i \in Slots :
          StepOf(i, "logout", "update")
          => /\ tasks'[i] = NoTask
             /\ IF tasks[i].user \in DOMAIN users /\ ~Failed
                THEN /\ users' = [users EXCEPT ![tasks[i].user] =
                                     Row("offline", Left, @.role, @.is_muted)]
                     /\ rooms' = [rooms EXCEPT ![tasks[i].conn] = {}]
                     /\ Cardinality(Events(done', "roomMessage")) =
                           Cardinality(rooms[tasks[i].conn])
                     /\ \A r \in rooms[tasks[i].conn] :
                           \E k \in Events(done', "roomMessage") :
                              /\ done'.em[k].room = r
                              /\ done'.em[k].to =
                                    {d \in Conns \ {tasks[i].conn} : r \in rooms[d]}
                     /\ Cardinality(Events(done', "userStatusChanged")) = 1
                     /\ TheEvent(done', "userStatusChanged").to =
                           {d \in Conns \ {tasks[i].conn} : open[d]}
                     /\ TheEvent(done', "userStatusChanged").user = tasks[i].user
                     /\ TheEvent(done', "userStatusChanged").status = "offline"
                     /\ TheEvent(done', "userStatusChanged").room = Left
                     /\ Len(done'.em) = Cardinality(rooms[tasks[i].conn]) + 1
                ELSE /\ users' = users
                     /\ rooms' = rooms
                     /\ done'.em = << >>]_vars

\* C19 witness: alice's logout on A has returned: her row is offline in
\* Left with her role, A is in no room, and bob's connection, still in the
\* room, got the notice that she left
C19_Witness ==
    /\ done.kind = "logout" /\ done.res = "ok"
    /\ done.user = "alice" /\ done.conn = "A"
    /\ users["alice"] = Row("offline", Left, ROLE_MODERATOR, FALSE)
    /\ rooms = [c \in Conns |-> IF c = "A" THEN {} ELSE {"Cars"}]
    /\ Cardinality(Events(done, "roomMessage")) = 1
    /\ TheEvent(done, "roomMessage").to = {"B"}
    /\ TheEvent(done, "roomMessage").room = "Cars"

\* C20: once no handler is running and no expiry timer is armed, the
\* participant who logged in on a connection that has disconnected is
\* offline, and the participant who logged in on a connection that is still
\* open has not been set offline.
C20_DisconnectMarksOwner ==
    Idle /\ timers = {}
    => \A c \in Conns :
          (users[LoggedIn[c]].status = "offline") <=> ~open[c]
====
